---- MODULE Spec2Model ----
(***************************************************************************)
(* Nesting / packing engine of shapeforge-dxf: the collision detector, the *)
(* greedy row packer, the bin-packer adapter and the optimizer search      *)
(* loop.                                                                   *)
(*                                                                         *)
(* Lengths are integers counted in quarter centimetres, so that the 1 cm   *)
(* margin, the 0.5 cm minimum spacing, spacing / 2 and base / 2 are all    *)
(* whole numbers.  Outline points are kept in hundredths of that unit      *)
(* (see Fx) so that the 16 samples of a circle have integer coordinates.   *)
(***************************************************************************)
EXTENDS Integers, Sequences, FiniteSets, TLC

VARIABLES
    shapes,            \* the caller's shape list (argument of every operation)
    spacing,           \* the spacing argument
    slab,              \* the slab argument
    packerRotFirst,    \* the packer's orientation preference (fixed per build)
    pc,                \* per optimizeNesting run: "idle", "loop", "done"
    currentIteration,  \* per run: the loop counter of optimizeNesting
    bestResult,        \* per run: the bestResult accumulator
    progressLog,       \* per run: the calls made to onProgress, in order
    candidateLog,      \* per run: what each iteration packed and how it validated
    returned,          \* per run: the value the promise resolved with
    arrangeOut,        \* output of the MaxRects-based arrangeShapes, or NotRun
    rowOut,            \* output of the row-packing arrangeShapes, or NotRun
    dxfOut,            \* entities written by the DXF exporter, or NotRun
    svgOut,            \* elements written by the SVG exporter, or NotRun
    collideOut,        \* results of a shapesCollide call in both orders, or NotRun
    pointOut,          \* result of a pointInPolygon call, or NotRun
    validOut,          \* result of an isValidArrangement call, or NotRun
    page               \* state of the Index page and of its running optimization

vars == <<shapes, spacing, slab, packerRotFirst, pc, currentIteration, bestResult,
          progressLog, candidateLog, returned, arrangeOut, rowOut,
          dxfOut, svgOut, collideOut, pointOut, validOut, page>>

(***************************************************************************)
(* Bounds of the model.                                                    *)
(***************************************************************************)
MaxShapes == 2

(***************************************************************************)
(* Program constants, in quarter centimetres.                              *)
(***************************************************************************)
Margin == 4
MinSpacing == 2
DefaultSlabWidth == 320
DefaultSlabHeight == 240
Samples == 16

NotRun == [ran |-> FALSE, out |-> <<>>]
Ran(list) == [ran |-> TRUE, out |-> list]

Max(a, b) == IF a >= b THEN a ELSE b
Min(a, b) == IF a <= b THEN a ELSE b

(***************************************************************************)
(* Shape model.  Every record carries every field; a field a type does not *)
(* have is 0.                                                              *)
(***************************************************************************)
LShapeTypes == {"l-shape-tl", "l-shape-tr", "l-shape-bl", "l-shape-br"}

MkShape(id, type, width, height, legWidth, legHeight, base, radius) ==
    [id |-> id, type |-> type, x |-> 0, y |-> 0, width |-> width, height |-> height,
     legWidth |-> legWidth, legHeight |-> legHeight, base |-> base, radius |-> radius]

Rectangle(id, w, h) == MkShape(id, "rectangle", w, h, 0, 0, 0, 0)
LShape(id, t, w, h, lw, lh) == MkShape(id, t, w, h, lw, lh, 0, 0)
Triangle(id, b, h) == MkShape(id, "triangle", 0, h, 0, 0, b, 0)
Circle(id, r) == MkShape(id, "circle", 0, 0, 0, 0, 0, r)
Slab(w, h) == MkShape("slab", "slab", w, h, 0, 0, 0, 0)

\* { ...shape, x, y }
MoveTo(shape, x, y) == [shape EXCEPT !.x = x, !.y = y]

SlabWidth(s) == IF s.type = "slab" THEN s.width ELSE DefaultSlabWidth
SlabHeight(s) == IF s.type = "slab" THEN s.height ELSE DefaultSlabHeight
SlabArea(s) == IF s.type = "slab" THEN s.width * s.height
               ELSE DefaultSlabWidth * DefaultSlabHeight

(***************************************************************************)
(* Bounds extractor.                                                       *)
(***************************************************************************)
getShapeBounds(shape) ==
    CASE shape.type = "rectangle" -> [width |-> shape.width, height |-> shape.height]
      [] shape.type \in LShapeTypes -> [width |-> shape.width, height |-> shape.height]
      [] shape.type = "triangle" -> [width |-> shape.base, height |-> shape.height]
      [] shape.type = "circle" -> [width |-> shape.radius * 2, height |-> shape.radius * 2]
      [] shape.type = "slab" -> [width |-> shape.width, height |-> shape.height]

getShapeBoundingBox(shape) ==
    CASE shape.type = "rectangle" ->
            [minX |-> shape.x, minY |-> shape.y,
             maxX |-> shape.x + shape.width, maxY |-> shape.y + shape.height]
      [] shape.type \in LShapeTypes ->
            [minX |-> shape.x, minY |-> shape.y,
             maxX |-> shape.x + shape.width, maxY |-> shape.y + shape.height]
      [] shape.type = "triangle" ->
            [minX |-> shape.x, minY |-> shape.y,
             maxX |-> shape.x + shape.base, maxY |-> shape.y + shape.height]
      [] shape.type = "circle" ->
            [minX |-> shape.x, minY |-> shape.y,
             maxX |-> shape.x + shape.radius * 2, maxY |-> shape.y + shape.radius * 2]
      [] shape.type = "slab" ->
            [minX |-> shape.x, minY |-> shape.y,
             maxX |-> shape.x + shape.width, maxY |-> shape.y + shape.height]

\* A length in the fixed-point unit of the outline points (hundredths).
Fx(v) == v * 100

Pt(x, y) == [x |-> x, y |-> y]

\* Math.cos(i / 16 * 2 PI) and Math.sin(i / 16 * 2 PI), in hundredths.
CosTable == <<100, 92, 71, 38, 0, -38, -71, -92, -100, -92, -71, -38, 0, 38, 71, 92>>
SinTable == <<0, 38, 71, 92, 100, 92, 71, 38, 0, -38, -71, -92, -100, -92, -71, -38>>

getShapePoints(shape) ==
    LET x == shape.x
        y == shape.y
        w == shape.width
        h == shape.height
        lw == shape.legWidth
        lh == shape.legHeight
        P(px, py) == Pt(Fx(px), Fx(py))
    IN  CASE shape.type = "rectangle" ->
                <<P(x, y), P(x + w, y), P(x + w, y + h), P(x, y + h)>>
          [] shape.type = "l-shape-tl" ->
                <<P(x, y), P(x + w, y), P(x + w, y + lh),
                  P(x + lw, y + lh), P(x + lw, y + h), P(x, y + h)>>
          [] shape.type = "l-shape-tr" ->
                <<P(x, y), P(x + w, y), P(x + w, y + h),
                  P(x + w - lw, y + h), P(x + w - lw, y + lh), P(x, y + lh)>>
          [] shape.type = "l-shape-bl" ->
                <<P(x, y), P(x + lw, y), P(x + lw, y + h - lh),
                  P(x + w, y + h - lh), P(x + w, y + h), P(x, y + h)>>
          [] shape.type = "l-shape-br" ->
                <<P(x, y), P(x + w, y), P(x + w, y + h),
                  P(x + w - lw, y + h), P(x + w - lw, y + h - lh), P(x, y + h - lh)>>
          [] shape.type = "triangle" ->
                \* base is even in every modelled shape, so base / 2 is exact
                <<P(x + shape.base \div 2, y), P(x + shape.base, y + h), P(x, y + h)>>
          [] shape.type = "circle" ->
                [i \in 1..Samples |->
                    Pt(Fx(x + shape.radius) + CosTable[i] * shape.radius,
                       Fx(y + shape.radius) + SinTable[i] * shape.radius)]
          [] OTHER -> <<>>

(***************************************************************************)
(* Collision detector.                                                     *)
(***************************************************************************)
\* One edge (polygon[i], polygon[j]) of the ray cast: the comparison
\*   point.x < (xj - xi) * (point.y - yi) / (yj - yi) + xi
\* is taken exactly, by multiplying out the non-zero divisor yj - yi.
RayCrosses(point, pi, pj) ==
    LET d == pj.y - pi.y
        lhs == (point.x - pi.x) * d
        rhs == (pj.x - pi.x) * (point.y - pi.y)
    IN  /\ (pi.y > point.y) # (pj.y > point.y)
        /\ IF d > 0 THEN lhs < rhs ELSE lhs > rhs

pointInPolygon(point, polygon) ==
    LET n == Len(polygon)
        prev(i) == IF i = 1 THEN n ELSE i - 1
        crossings == {i \in 1..n : RayCrosses(point, polygon[i], polygon[prev(i)])}
    IN  Cardinality(crossings) % 2 = 1

\* Faulty variant: circles that just touch count as colliding (<= for <).
circlesCollideInclusive(c1, c2, buffer) ==
    LET dx == (c2.x + c2.radius) - (c1.x + c1.radius)
        dy == (c2.y + c2.radius) - (c1.y + c1.radius)
        reach == c1.radius + c2.radius + buffer
    IN  reach >= 0 /\ dx * dx + dy * dy <= reach * reach

circlesCollide(c1, c2, buffer) ==
    LET dx == (c2.x + c2.radius) - (c1.x + c1.radius)
        dy == (c2.y + c2.radius) - (c1.y + c1.radius)
        reach == c1.radius + c2.radius + buffer
    IN  \* sqrt(dx*dx + dy*dy) < reach
        reach > 0 /\ dx * dx + dy * dy < reach * reach

getShapeEdges(points) ==
    [i \in 1..Len(points) |-> <<points[i], points[(i % Len(points)) + 1]>>]

ccw(A, B, C) == (C.y - A.y) * (B.x - A.x) > (B.y - A.y) * (C.x - A.x)

edgesIntersect(a1, a2, b1, b2) ==
    /\ ccw(a1, b1, b2) # ccw(a2, b1, b2)
    /\ ccw(a1, a2, b1) # ccw(a1, a2, b2)

\* Faulty variant: the vertex-in-polygon tests are left out.
shapesCollideEdgesOnly(shape1, shape2, buffer) ==
    IF shape1.type = "circle" /\ shape2.type = "circle"
    THEN circlesCollide(shape1, shape2, buffer)
    ELSE
      LET b1 == getShapeBoundingBox(shape1)
          b2 == getShapeBoundingBox(shape2)
          edges1 == getShapeEdges(getShapePoints(shape1))
          edges2 == getShapeEdges(getShapePoints(shape2))
      IN  IF \/ b1.maxX + buffer < b2.minX - buffer \/ b2.maxX + buffer < b1.minX - buffer
             \/ b1.maxY + buffer < b2.minY - buffer \/ b2.maxY + buffer < b1.minY - buffer
          THEN FALSE
          ELSE \E i \in 1..Len(edges1) : \E j \in 1..Len(edges2) :
                   edgesIntersect(edges1[i][1], edges1[i][2], edges2[j][1], edges2[j][2])

\* Faulty variant: only the first shape's vertices are tested against the other.
shapesCollideOneWay(shape1, shape2, buffer) ==
    IF shape1.type = "circle" /\ shape2.type = "circle"
    THEN circlesCollide(shape1, shape2, buffer)
    ELSE
      LET b1 == getShapeBoundingBox(shape1)
          b2 == getShapeBoundingBox(shape2)
          points1 == getShapePoints(shape1)
          points2 == getShapePoints(shape2)
          edges1 == getShapeEdges(points1)
          edges2 == getShapeEdges(points2)
      IN  IF \/ b1.maxX + buffer < b2.minX - buffer \/ b2.maxX + buffer < b1.minX - buffer
             \/ b1.maxY + buffer < b2.minY - buffer \/ b2.maxY + buffer < b1.minY - buffer
          THEN FALSE
          ELSE \/ \E i \in 1..Len(points1) : pointInPolygon(points1[i], points2)
               \/ \E i \in 1..Len(edges1) : \E j \in 1..Len(edges2) :
                     edgesIntersect(edges1[i][1], edges1[i][2], edges2[j][1], edges2[j][2])

\* Faulty variant: with a positive buffer the expanded boxes decide alone.
shapesCollideBufferDecides(shape1, shape2, buffer) ==
    IF shape1.type = "circle" /\ shape2.type = "circle"
    THEN circlesCollide(shape1, shape2, buffer)
    ELSE
      LET b1 == getShapeBoundingBox(shape1)
          b2 == getShapeBoundingBox(shape2)
          points1 == getShapePoints(shape1)
          points2 == getShapePoints(shape2)
          edges1 == getShapeEdges(points1)
          edges2 == getShapeEdges(points2)
      IN  IF \/ b1.maxX + buffer < b2.minX - buffer \/ b2.maxX + buffer < b1.minX - buffer
             \/ b1.maxY + buffer < b2.minY - buffer \/ b2.maxY + buffer < b1.minY - buffer
          THEN FALSE
          ELSE \/ buffer > 0
               \/ \E i \in 1..Len(points1) : pointInPolygon(points1[i], points2)
               \/ \E i \in 1..Len(points2) : pointInPolygon(points2[i], points1)
               \/ \E i \in 1..Len(edges1) : \E j \in 1..Len(edges2) :
                     edgesIntersect(edges1[i][1], edges1[i][2], edges2[j][1], edges2[j][2])

shapesCollide(shape1, shape2, buffer) ==
    IF shape1.type = "circle" /\ shape2.type = "circle"
    THEN circlesCollide(shape1, shape2, buffer)
    ELSE
      LET b1 == getShapeBoundingBox(shape1)
          b2 == getShapeBoundingBox(shape2)
          box1 == [minX |-> b1.minX - buffer, minY |-> b1.minY - buffer,
                   maxX |-> b1.maxX + buffer, maxY |-> b1.maxY + buffer]
          box2 == [minX |-> b2.minX - buffer, minY |-> b2.minY - buffer,
                   maxX |-> b2.maxX + buffer, maxY |-> b2.maxY + buffer]
          points1 == getShapePoints(shape1)
          points2 == getShapePoints(shape2)
          edges1 == getShapeEdges(points1)
          edges2 == getShapeEdges(points2)
      IN  IF \/ box1.maxX < box2.minX \/ box2.maxX < box1.minX
             \/ box1.maxY < box2.minY \/ box2.maxY < box1.minY
          THEN FALSE
          ELSE \/ \E i \in 1..Len(points1) : pointInPolygon(points1[i], points2)
               \/ \E i \in 1..Len(points2) : pointInPolygon(points2[i], points1)
               \/ \E i \in 1..Len(edges1) : \E j \in 1..Len(edges2) :
                     edgesIntersect(edges1[i][1], edges1[i][2], edges2[j][1], edges2[j][2])

\* Faulty variant: the far edges are not compared with the slab.
shapeWithinBoundsMinOnly(shape, slabShape, margin) ==
    LET shapeBounds == getShapeBoundingBox(shape)
    IN  /\ shapeBounds.minX >= margin
        /\ shapeBounds.minY >= margin

shapeWithinBounds(shape, slabShape, margin) ==
    LET shapeBounds == getShapeBoundingBox(shape)
    IN  /\ shapeBounds.minX >= margin
        /\ shapeBounds.minY >= margin
        /\ shapeBounds.maxX <= SlabWidth(slabShape) - margin
        /\ shapeBounds.maxY <= SlabHeight(slabShape) - margin

\* Faulty variant: the pairwise collision loop is missing.
isValidArrangementBoundsOnly(list, slabShape, sp) ==
    \A i \in 1..Len(list) : shapeWithinBounds(list[i], slabShape, Margin)

\* Faulty variant: the buffer is subtracted, -spacing / 2 for spacing / 2.
isValidArrangementNegativeBuffer(list, slabShape, sp) ==
    /\ \A i \in 1..Len(list) : shapeWithinBounds(list[i], slabShape, Margin)
    /\ \A i \in 1..Len(list) : \A j \in (i + 1)..Len(list) :
          ~shapesCollide(list[i], list[j], 0 - (sp \div 2))

isValidArrangement(list, slabShape, sp) ==
    /\ \A i \in 1..Len(list) : shapeWithinBounds(list[i], slabShape, Margin)
    /\ \A i \in 1..Len(list) : \A j \in (i + 1)..Len(list) :
          ~shapesCollide(list[i], list[j], sp \div 2)

(***************************************************************************)
(* Greedy row packer.                                                      *)
(***************************************************************************)
\* Faulty variant: the row is wrapped at the slab edge, not 1 cm before it.
RowStepWrapAtEdge(st, shape, sp, maxWidth) ==
    LET bounds == getShapeBounds(shape)
        wrap == st.currentX + bounds.width > maxWidth + Margin /\ Len(st.arranged) > 0
        cx == IF wrap THEN Margin ELSE st.currentX
        cy == IF wrap THEN st.currentY + st.maxHeightInRow + sp ELSE st.currentY
        mh == IF wrap THEN 0 ELSE st.maxHeightInRow
    IN  [arranged |-> Append(st.arranged, MoveTo(shape, cx, cy)),
         currentX |-> cx + bounds.width + sp,
         currentY |-> cy,
         maxHeightInRow |-> Max(mh, bounds.height)]

\* Faulty variant: the cursor advances by the width alone.
RowStepNoSpacing(st, shape, sp, maxWidth) ==
    LET bounds == getShapeBounds(shape)
        wrap == st.currentX + bounds.width > maxWidth /\ Len(st.arranged) > 0
        cx == IF wrap THEN Margin ELSE st.currentX
        cy == IF wrap THEN st.currentY + st.maxHeightInRow + sp ELSE st.currentY
        mh == IF wrap THEN 0 ELSE st.maxHeightInRow
    IN  [arranged |-> Append(st.arranged, MoveTo(shape, cx, cy)),
         currentX |-> cx + bounds.width,
         currentY |-> cy,
         maxHeightInRow |-> Max(mh, bounds.height)]

\* One pass of the forEach: st is [arranged, currentX, currentY, maxHeightInRow].
RowStep(st, shape, sp, maxWidth) ==
    LET bounds == getShapeBounds(shape)
        wrap == st.currentX + bounds.width > maxWidth /\ Len(st.arranged) > 0
        cx == IF wrap THEN Margin ELSE st.currentX
        cy == IF wrap THEN st.currentY + st.maxHeightInRow + sp ELSE st.currentY
        mh == IF wrap THEN 0 ELSE st.maxHeightInRow
    IN  [arranged |-> Append(st.arranged, MoveTo(shape, cx, cy)),
         currentX |-> cx + bounds.width + sp,
         currentY |-> cy,
         maxHeightInRow |-> Max(mh, bounds.height)]

RECURSIVE RowFold(_, _, _, _, _)
RowFold(st, list, i, sp, maxWidth) ==
    IF i > Len(list) THEN st
    ELSE RowFold(RowStep(st, list[i], sp, maxWidth), list, i + 1, sp, maxWidth)

arrangeShapesRow(list, sp, slabShape) ==
    IF Len(list) = 0 THEN list
    ELSE RowFold([arranged |-> <<>>, currentX |-> Margin, currentY |-> Margin,
                  maxHeightInRow |-> 0],
                 list, 1, sp, SlabWidth(slabShape) - Margin).arranged

(***************************************************************************)
(* Sorting strategies of the optimizer.  Each comparator returns a number  *)
(* of the sign the source's comparator returns.                            *)
(***************************************************************************)
StrategyNames == <<"area-desc", "area-asc", "width-desc", "height-desc",
                   "perimeter-desc", "aspect-ratio", "mixed-strategy">>

sortingStrategies(name, a, b) ==
    LET aB == getShapeBounds(a)
        bB == getShapeBounds(b)
    IN  CASE name = "area-desc" -> (bB.width * bB.height) - (aB.width * aB.height)
          [] name = "area-asc" -> (aB.width * aB.height) - (bB.width * bB.height)
          [] name = "width-desc" -> bB.width - aB.width
          [] name = "height-desc" -> bB.height - aB.height
          [] name = "perimeter-desc" ->
                (2 * (bB.width + bB.height)) - (2 * (aB.width + aB.height))
          [] name = "aspect-ratio" ->
                \* ratioB - ratioA, with ratio = max / min, multiplied by the
                \* positive number minA * minB
                Max(bB.width, bB.height) * Min(aB.width, aB.height)
                  - Max(aB.width, aB.height) * Min(bB.width, bB.height)
          [] name = "mixed-strategy" ->
                ((bB.width * bB.height) + (bB.width + bB.height))
                  - ((aB.width * aB.height) + (aB.width + aB.height))

\* Array.prototype.sort is stable: an element goes after every element that
\* does not compare greater than it.
RECURSIVE InsertSorted(_, _, _)
InsertSorted(sorted, e, name) ==
    IF sorted = <<>> THEN <<e>>
    ELSE IF sortingStrategies(name, Head(sorted), e) <= 0
         THEN <<Head(sorted)>> \o InsertSorted(Tail(sorted), e, name)
         ELSE <<e>> \o sorted

RECURSIVE StableSort(_, _)
StableSort(list, name) ==
    IF list = <<>> THEN <<>>
    ELSE InsertSorted(StableSort(SubSeq(list, 1, Len(list) - 1), name),
                      list[Len(list)], name)

\* Faulty variant: shapes.sort(strategy.fn), which sorts the caller's array.
SortedInPlace(list, name) ==
    [sortedShapes |-> StableSort(list, name), shapes |-> StableSort(list, name)]

\* [...shapes].sort(strategy.fn): the sorted copy, and the caller's array
\* as the statement leaves it.
SortedCopy(list, name) ==
    [sortedShapes |-> StableSort(list, name), shapes |-> list]

(***************************************************************************)
(* The rectangle bin packer the adapter wraps (MaxRectsPacker): rectangles *)
(* are added one at a time, in the order given; a rectangle larger than    *)
(* the bin gets a bin of its own, any other goes to the first bin with     *)
(* room for it, and to a new bin when there is none.  Inside a bin a       *)
(* rectangle is put at the top-most, then left-most, free corner where it  *)
(* keeps the padding to every rectangle already there; with rotation       *)
(* allowed a non-square rectangle may be turned by 90 degrees, which swaps *)
(* its width and height and sets its rot flag.                             *)
(***************************************************************************)
\* the outcome of looking for room: no rectangle, or the rectangle as placed
NoFit == <<>>

NewRectangle(width, height, shape) ==
    [width |-> width, height |-> height, x |-> 0, y |-> 0, rot |-> FALSE,
     shapeData |-> shape]

Turned(rect) == [rect EXCEPT !.width = rect.height, !.height = rect.width, !.rot = TRUE]

\* rect, put at (x, y), fits the bin and keeps the padding to the others
FitsAt(rects, rect, x, y, binWidth, binHeight, padding) ==
    /\ x + rect.width <= binWidth
    /\ y + rect.height <= binHeight
    /\ \A k \in 1..Len(rects) :
          \/ x >= rects[k].x + rects[k].width + padding
          \/ rects[k].x >= x + rect.width + padding
          \/ y >= rects[k].y + rects[k].height + padding
          \/ rects[k].y >= y + rect.height + padding

FindNode(rects, rect, binWidth, binHeight, padding) ==
    LET xs == {0} \cup {rects[k].x + rects[k].width + padding : k \in 1..Len(rects)}
        ys == {0} \cup {rects[k].y + rects[k].height + padding : k \in 1..Len(rects)}
        free == {c \in xs \X ys :
                    FitsAt(rects, rect, c[1], c[2], binWidth, binHeight, padding)}
    IN  IF free = {} THEN NoFit
        ELSE LET c == CHOOSE c \in free : \A d \in free :
                          c[2] < d[2] \/ (c[2] = d[2] /\ c[1] <= d[1])
             IN  <<[rect EXCEPT !.x = c[1], !.y = c[2]]>>

\* MaxRectsBin.add: the placed rectangle, or NoFit
BinAdd(rects, rect, binWidth, binHeight, padding, allowRotation, rotFirst) ==
    LET plain == FindNode(rects, rect, binWidth, binHeight, padding)
        turned == IF allowRotation /\ rect.width # rect.height
                  THEN FindNode(rects, Turned(rect), binWidth, binHeight, padding)
                  ELSE NoFit
    IN  IF rotFirst
        THEN (IF turned # NoFit THEN turned ELSE plain)
        ELSE (IF plain # NoFit THEN plain ELSE turned)

\* MaxRectsPacker.add: the bins after adding rect
RECURSIVE AddToBins(_, _, _, _, _, _, _, _)
AddToBins(bins, i, rect, binWidth, binHeight, padding, allowRotation, rotFirst) ==
    IF i > Len(bins)
    THEN Append(bins, [oversized |-> FALSE,
                       rects |-> BinAdd(<<>>, rect, binWidth, binHeight, padding,
                                        allowRotation, rotFirst)])
    ELSE LET placed == IF bins[i].oversized THEN NoFit
                       ELSE BinAdd(bins[i].rects, rect, binWidth, binHeight, padding,
                                   allowRotation, rotFirst)
         IN  IF placed # NoFit
             THEN [bins EXCEPT ![i].rects = @ \o placed]
             ELSE AddToBins(bins, i + 1, rect, binWidth, binHeight, padding,
                            allowRotation, rotFirst)

PackerAdd(bins, rect, binWidth, binHeight, padding, allowRotation, rotFirst) ==
    IF rect.width > binWidth \/ rect.height > binHeight
    THEN Append(bins, [oversized |-> TRUE, rects |-> <<rect>>])
    ELSE AddToBins(bins, 1, rect, binWidth, binHeight, padding, allowRotation, rotFirst)

\* MaxRectsPacker.addArray: packer.bins after the call
RECURSIVE PackerAddArray(_, _, _, _, _, _, _, _)
PackerAddArray(bins, rects, i, binWidth, binHeight, padding, allowRotation, rotFirst) ==
    IF i > Len(rects) THEN bins
    ELSE PackerAddArray(
            PackerAdd(bins, rects[i], binWidth, binHeight, padding, allowRotation, rotFirst),
            rects, i + 1, binWidth, binHeight, padding, allowRotation, rotFirst)

(***************************************************************************)
(* Bin packer adapter: rotation reconstruction.                            *)
(***************************************************************************)
canRotateShape(shape) == shape.type = "rectangle" \/ shape.type = "triangle"

\* Faulty variant: the turned shape takes the old height for both dimensions.
rotateShapeOneSided(shape, x, y) ==
    CASE shape.type = "rectangle" ->
            [shape EXCEPT !.x = x, !.y = y, !.width = shape.height]
      [] shape.type = "triangle" ->
            [shape EXCEPT !.x = x, !.y = y, !.base = shape.height]
      [] OTHER -> MoveTo(shape, x, y)

rotateShape(shape, x, y) ==
    CASE shape.type = "rectangle" ->
            [shape EXCEPT !.x = x, !.y = y, !.width = shape.height, !.height = shape.width]
      [] shape.type = "triangle" ->
            [shape EXCEPT !.x = x, !.y = y, !.base = shape.height, !.height = shape.base]
      [] OTHER -> MoveTo(shape, x, y)

\* Faulty variant: a rotated rectangle swaps the dimensions of any shape.
FinalShapeSwapAny(rect) ==
    LET packedShape == rect.shapeData
        moved == MoveTo(packedShape, rect.x + Margin, rect.y + Margin)
    IN  IF rect.rot
        THEN [moved EXCEPT !.width = IF packedShape.type = "triangle" THEN 0
                                     ELSE packedShape.height,
                           !.height = IF packedShape.type = "triangle" THEN packedShape.base
                                      ELSE packedShape.width,
                           !.base = IF packedShape.type = "triangle" THEN packedShape.height
                                    ELSE 0]
        ELSE moved

\* the body of bin.rects.forEach: the shape pushed for one packed rectangle
FinalShape(rect) ==
    LET packedShape == rect.shapeData
        wasRotated == rect.rot
    IN  IF wasRotated /\ canRotateShape(packedShape)
        THEN rotateShape(packedShape, rect.x + Margin, rect.y + Margin)
        ELSE MoveTo(packedShape, rect.x + Margin, rect.y + Margin)

\* packer.bins.forEach(bin => bin.rects.forEach(...)): every bin, in order
RECURSIVE ArrangedOf(_, _)
ArrangedOf(bins, i) ==
    IF i > Len(bins) THEN <<>>
    ELSE [k \in 1..Len(bins[i].rects) |-> FinalShape(bins[i].rects[k])]
           \o ArrangedOf(bins, i + 1)

PackableShapes(list) ==
    [k \in 1..Len(list) |->
        NewRectangle(getShapeBounds(list[k]).width, getShapeBounds(list[k]).height, list[k])]

\* One packing pass of the adapter: packer construction, addArray, extraction.
PackAndExtract(list, sp, slabShape, allowRotation, rotFirst) ==
    LET minSpacing == Max(sp, MinSpacing)
        usableWidth == SlabWidth(slabShape) - (Margin * 2)
        usableHeight == SlabHeight(slabShape) - (Margin * 2)
    IN  ArrangedOf(PackerAddArray(<<>>, PackableShapes(list), 1, usableWidth, usableHeight,
                                  minSpacing, allowRotation, rotFirst), 1)

\* packableShapes.sort((a, b) => b.width * b.height - a.width * a.height)
arrangeShapes(list, sp, slabShape, rotFirst) ==
    IF Len(list) = 0 THEN list
    ELSE PackAndExtract(StableSort(list, "area-desc"), sp, slabShape, TRUE, rotFirst)

(***************************************************************************)
(* Optimizer.                                                              *)
(***************************************************************************)
SumBoundsArea(list) ==
    LET RECURSIVE Sum(_)
        Sum(i) == IF i > Len(list) THEN 0
                  ELSE getShapeBounds(list[i]).width * getShapeBounds(list[i]).height
                         + Sum(i + 1)
    IN  Sum(1)

\* (totalShapeArea / slabArea) * 100, kept as the exact fraction num / den
calculateEfficiency(list, slabShape) ==
    [num |-> SumBoundsArea(list) * 100, den |-> SlabArea(slabShape)]

ZeroEfficiency == [num |-> 0, den |-> 1]

\* e > f for two such fractions (over the same denominator: by numerators)
EffGreater(e, f) ==
    IF e.den = f.den THEN e.num > f.num ELSE e.num * f.den > f.num * e.den

\* Faulty variant: the total area of the default 80 x 60 slab is reported.
EmptyResultDefaultArea(slabShape) ==
    [shapes |-> <<>>, efficiency |-> ZeroEfficiency, usedArea |-> 0,
     totalArea |-> DefaultSlabWidth * DefaultSlabHeight, iteration |-> 0]

\* the result returned for an empty shape list
EmptyResult(slabShape) ==
    [shapes |-> <<>>, efficiency |-> ZeroEfficiency, usedArea |-> 0,
     totalArea |-> SlabArea(slabShape), iteration |-> 0]

\* the initial bestResult
InitialResult(slabShape) ==
    [shapes |-> <<>>, efficiency |-> ZeroEfficiency, usedArea |-> 0,
     totalArea |-> SlabWidth(slabShape) * SlabHeight(slabShape), iteration |-> 0]

\* Faulty variant: the rotation pass is not counted.
TotalIterationsSinglePass == Len(StrategyNames)

\* const totalIterations = sortingStrategies.length * 2
TotalIterations == Len(StrategyNames) * 2

\* for (const strategy of sortingStrategies) for (const allowRotation of [true, false])
RotationChoices == <<TRUE, FALSE>>
LoopLength == Len(StrategyNames) * Len(RotationChoices)
StrategyOf(iteration) == StrategyNames[((iteration - 1) \div Len(RotationChoices)) + 1]
AllowRotationOf(iteration) == RotationChoices[((iteration - 1) % Len(RotationChoices)) + 1]

\* the candidate of one iteration: what was packed and whether it validated
Candidate(sortedShapes, sp, slabShape, allowRotation, rotFirst) ==
    LET arranged == PackAndExtract(sortedShapes, sp, slabShape, allowRotation, rotFirst)
    IN  [arranged |-> arranged,
         isValid |-> isValidArrangement(arranged, slabShape, Max(sp, MinSpacing))]

\* the result an accepted candidate becomes
ResultOf(cand, slabShape, iteration) ==
    [shapes |-> cand.arranged,
     efficiency |-> calculateEfficiency(cand.arranged, slabShape),
     usedArea |-> SumBoundsArea(cand.arranged),
     totalArea |-> SlabWidth(slabShape) * SlabHeight(slabShape),
     iteration |-> iteration]

\* Faulty variant: bestResult is declared inside the loop, so every iteration
\* starts from the empty result.
UpdateBestLoopLocal(best, cand, slabShape, iteration) ==
    IF cand.isValid /\ Len(cand.arranged) > 0
    THEN ResultOf(cand, slabShape, iteration)
    ELSE InitialResult(slabShape)

\* Faulty variant: the candidate is not validated before it is compared.
UpdateBestUnvalidated(best, cand, slabShape, iteration) ==
    IF Len(cand.arranged) > 0
    THEN IF \/ Len(cand.arranged) > Len(best.shapes)
            \/ /\ Len(cand.arranged) = Len(best.shapes)
               /\ EffGreater(calculateEfficiency(cand.arranged, slabShape),
                             best.efficiency)
         THEN ResultOf(cand, slabShape, iteration)
         ELSE best
    ELSE best

\* Faulty variant: an equally good candidate replaces the best (>= for >).
UpdateBestOnTie(best, cand, slabShape, iteration) ==
    IF cand.isValid /\ Len(cand.arranged) > 0
    THEN IF \/ Len(cand.arranged) > Len(best.shapes)
            \/ /\ Len(cand.arranged) = Len(best.shapes)
               /\ ~EffGreater(best.efficiency,
                              calculateEfficiency(cand.arranged, slabShape))
         THEN ResultOf(cand, slabShape, iteration)
         ELSE best
    ELSE best

\* if (isValid && arranged.length > 0) { ... if (better) bestResult = {...} }
UpdateBest(best, cand, slabShape, iteration) ==
    IF cand.isValid /\ Len(cand.arranged) > 0
    THEN LET efficiency == calculateEfficiency(cand.arranged, slabShape)
         IN  IF \/ Len(cand.arranged) > Len(best.shapes)
                \/ /\ Len(cand.arranged) = Len(best.shapes)
                   /\ EffGreater(efficiency, best.efficiency)
             THEN ResultOf(cand, slabShape, iteration)
             ELSE best
    ELSE best

\* onProgress((currentIteration / totalIterations) * 100, bestResult)
ProgressCall(iteration, best) ==
    [progress |-> [num |-> iteration * 100, den |-> TotalIterations], bestSoFar |-> best]

(***************************************************************************)
(* Inputs.  Dimensions are multiples of 0.5 cm.                            *)
(***************************************************************************)
ShapeCatalogue ==
    <<Rectangle("r1", 8, 4),
      Rectangle("r2", 4, 8),
      Triangle("t1", 8, 4),
      LShape("l1", "l-shape-tl", 8, 4, 4, 2),
      Circle("c1", 2),
      Rectangle("r3", 12, 4)>>

SlabChoices == {Slab(24, 16), Slab(16, 16)}

\* a 40 x 40 cm slab with a triangle as large as its usable area and a
\* triangle that fits beside the slope of the first, inside its bounding box
OverlayCatalogue ==
    <<Triangle("t2", 152, 152),
      Triangle("t3", 36, 76)>>

OverlaySlab == Slab(160, 160)

\* a 6 x 4 cm slab with a rectangle that leaves a strip 0.5 cm wide beside
\* it and an L-shape 2 cm wide and 0.5 cm high, which fits the strip on end
StripCatalogue ==
    <<Rectangle("r4", 12, 8),
      LShape("l2", "l-shape-tl", 8, 2, 4, 1)>>

StripSlab == Slab(24, 16)

SpacingChoices == {0, 4}

RowSpacingChoices == {0, 2, 4}

\* every list of at most n shapes of a catalogue, in every order
RECURSIVE ListsUpTo(_, _)
ListsUpTo(catalogue, n) ==
    IF n = 0 THEN {<<>>}
    ELSE LET shorter == ListsUpTo(catalogue, n - 1)
         IN  shorter \cup
             {Append(l, catalogue[k]) :
                 l \in {m \in shorter : Len(m) = n - 1},
                 k \in 1..Len(catalogue)}

HasDistinctIds(list) ==
    \A i, j \in 1..Len(list) : i # j => list[i].id # list[j].id

ShapeLists(catalogue) == {l \in ListsUpTo(catalogue, MaxShapes) : HasDistinctIds(l)}

Runs == {1, 2}

(***************************************************************************)
(* State machine.                                                          *)
(***************************************************************************)
\* a handleOptimize call that is not in flight
NoRun == [running |-> FALSE, shapes |-> <<>>, currentIteration |-> 0, found |-> FALSE]

\* The state hooks of the Index page as declared (shapes are kept by their
\* ids, the slab by its presence, editingShape as a list of at most one id,
\* optimizationProgress in units of 1 / TotalIterations percent), and the
\* handleOptimize calls in flight with the shapes each has captured.
InitialPage ==
    [slab |-> FALSE, shapes |-> <<>>, arrangedShapes |-> <<>>, editingShape |-> <<>>,
     isOptimizing |-> FALSE, optimizationProgress |-> 0,
     calls |-> [r \in Runs |-> NoRun]]

InitCalls ==
    /\ pc = [r \in Runs |-> "idle"]
    /\ currentIteration = [r \in Runs |-> 0]
    /\ bestResult = [r \in Runs |-> InitialResult(slab)]
    /\ progressLog = [r \in Runs |-> <<>>]
    /\ candidateLog = [r \in Runs |-> <<>>]
    /\ returned = [r \in Runs |-> <<>>]
    /\ arrangeOut = NotRun
    /\ rowOut = NotRun
    /\ dxfOut = NotRun
    /\ svgOut = NotRun
    /\ collideOut = NotRun
    /\ pointOut = NotRun
    /\ validOut = NotRun
    /\ page = InitialPage

Init ==
    /\ \/ shapes \in ShapeLists(ShapeCatalogue) /\ slab \in SlabChoices
       \/ shapes \in ShapeLists(OverlayCatalogue) /\ slab = OverlaySlab
       \/ shapes \in ShapeLists(StripCatalogue) /\ slab = StripSlab
    /\ spacing \in SpacingChoices
    /\ packerRotFirst \in BOOLEAN
    /\ InitCalls

\* a second optimizeNesting call is made after the first has resolved
MayStart(r) == \A q \in Runs : q < r => pc[q] = "done"

\* optimizeNesting called with an empty list: returns at once
StartEmpty(r) ==
    /\ pc[r] = "idle"
    /\ MayStart(r)
    /\ Len(shapes) = 0
    /\ pc' = [pc EXCEPT ![r] = "done"]
    /\ returned' = [returned EXCEPT ![r] = <<EmptyResult(slab)>>]
    /\ UNCHANGED <<shapes, spacing, slab, packerRotFirst, currentIteration, bestResult,
                   progressLog, candidateLog, arrangeOut, rowOut,
                   dxfOut, svgOut, collideOut, pointOut, validOut, page>>

\* optimizeNesting called with shapes: up to the first iteration
Start(r) ==
    /\ pc[r] = "idle"
    /\ MayStart(r)
    /\ Len(shapes) # 0
    /\ pc' = [pc EXCEPT ![r] = "loop"]
    /\ bestResult' = [bestResult EXCEPT ![r] = InitialResult(slab)]
    /\ currentIteration' = [currentIteration EXCEPT ![r] = 0]
    /\ UNCHANGED <<shapes, spacing, slab, packerRotFirst, progressLog, candidateLog,
                   returned, arrangeOut, rowOut,
                   dxfOut, svgOut, collideOut, pointOut, validOut, page>>

\* Faulty variant: the accumulator is one module-level variable, that of run 1.
bestResultShared(r) == bestResult[1]

\* let bestResult: a local of the call, one per run
bestResultOf(r) == bestResult[r]

\* one iteration of the search loop, up to its await
Iterate(r) ==
    /\ pc[r] = "loop"
    /\ currentIteration[r] < LoopLength
    /\ LET iteration == currentIteration[r] + 1
           sorted == SortedCopy(shapes, StrategyOf(iteration))
           cand == Candidate(sorted.sortedShapes, spacing, slab,
                             AllowRotationOf(iteration), packerRotFirst)
           best == UpdateBest(bestResultOf(r), cand, slab, iteration)
       IN  /\ shapes' = sorted.shapes
           /\ currentIteration' = [currentIteration EXCEPT ![r] = iteration]
           /\ bestResult' = [bestResult EXCEPT ![r] = best]
           /\ candidateLog' = [candidateLog EXCEPT ![r] =
                  Append(@, [strategy |-> StrategyOf(iteration),
                             allowRotation |-> AllowRotationOf(iteration),
                             arranged |-> cand.arranged, isValid |-> cand.isValid])]
           /\ progressLog' = [progressLog EXCEPT ![r] = Append(@, ProgressCall(iteration, best))]
    /\ UNCHANGED <<spacing, slab, packerRotFirst, pc, returned, arrangeOut, rowOut,
                   dxfOut, svgOut, collideOut, pointOut, validOut, page>>

\* the loop is over: return bestResult
Finish(r) ==
    /\ pc[r] = "loop"
    /\ currentIteration[r] = LoopLength
    /\ pc' = [pc EXCEPT ![r] = "done"]
    /\ returned' = [returned EXCEPT ![r] = <<bestResult[r]>>]
    /\ UNCHANGED <<shapes, spacing, slab, packerRotFirst, currentIteration, bestResult,
                   progressLog, candidateLog, arrangeOut, rowOut,
                   dxfOut, svgOut, collideOut, pointOut, validOut, page>>

\* quick arrange: the MaxRects-based arrangeShapes
Arrange ==
    /\ ~arrangeOut.ran
    /\ arrangeOut' = Ran(arrangeShapes(shapes, spacing, slab, packerRotFirst))
    /\ UNCHANGED <<shapes, spacing, slab, packerRotFirst, pc, currentIteration, bestResult,
                   progressLog, candidateLog, returned, rowOut,
                   dxfOut, svgOut, collideOut, pointOut, validOut, page>>

Next ==
    \/ \E r \in Runs : StartEmpty(r)
    \/ \E r \in Runs : Start(r)
    \/ \E r \in Runs : Iterate(r)
    \/ \E r \in Runs : Finish(r)
    \/ Arrange

Spec == Init /\ [][Next]_vars

(***************************************************************************)
(* Two optimizeNesting calls in flight at once: the second is made while   *)
(* the first waits at one of its awaits.                                   *)
(***************************************************************************)
OverlapCatalogue ==
    <<Rectangle("r1", 8, 4),
      LShape("l1", "l-shape-tl", 8, 4, 4, 2),
      Triangle("t1", 8, 4)>>

InitOverlap ==
    /\ shapes \in ShapeLists(OverlapCatalogue)
    /\ slab = Slab(24, 16)
    /\ spacing \in SpacingChoices
    /\ packerRotFirst \in BOOLEAN
    /\ InitCalls

\* optimizeNesting called with an empty list while another call may be running
StartEmptyOverlap(r) ==
    /\ pc[r] = "idle"
    /\ Len(shapes) = 0
    /\ pc' = [pc EXCEPT ![r] = "done"]
    /\ returned' = [returned EXCEPT ![r] = <<EmptyResult(slab)>>]
    /\ UNCHANGED <<shapes, spacing, slab, packerRotFirst, currentIteration, bestResult,
                   progressLog, candidateLog, arrangeOut, rowOut,
                   dxfOut, svgOut, collideOut, pointOut, validOut, page>>

\* optimizeNesting called with shapes while another call may be running
StartOverlap(r) ==
    /\ pc[r] = "idle"
    /\ Len(shapes) # 0
    /\ pc' = [pc EXCEPT ![r] = "loop"]
    /\ bestResult' = [bestResult EXCEPT ![r] = InitialResult(slab)]
    /\ currentIteration' = [currentIteration EXCEPT ![r] = 0]
    /\ UNCHANGED <<shapes, spacing, slab, packerRotFirst, progressLog, candidateLog,
                   returned, arrangeOut, rowOut,
                   dxfOut, svgOut, collideOut, pointOut, validOut, page>>

NextOverlap ==
    \/ \E r \in Runs : StartEmptyOverlap(r)
    \/ \E r \in Runs : StartOverlap(r)
    \/ \E r \in Runs : Iterate(r)
    \/ \E r \in Runs : Finish(r)

SpecOverlap == InitOverlap /\ [][NextOverlap]_vars

(***************************************************************************)
(* The optimizer over a packer that can fail.                              *)
(***************************************************************************)
\* packer.addArray throws in an iteration: currentIteration++ has been done,
\* nothing in the loop catches, and the promise of optimizeNesting rejects
IterateThrows(r) ==
    /\ pc[r] = "loop"
    /\ currentIteration[r] < LoopLength
    /\ currentIteration' = [currentIteration EXCEPT ![r] = @ + 1]
    /\ pc' = [pc EXCEPT ![r] = "rejected"]
    /\ UNCHANGED <<shapes, spacing, slab, packerRotFirst, bestResult, progressLog,
                   candidateLog, returned, arrangeOut, rowOut,
                   dxfOut, svgOut, collideOut, pointOut, validOut, page>>

NextThrow ==
    \/ \E r \in Runs : Start(r)
    \/ \E r \in Runs : Iterate(r)
    \/ \E r \in Runs : IterateThrows(r)
    \/ \E r \in Runs : Finish(r)

SpecThrow == Init /\ [][NextThrow]_vars

(***************************************************************************)
(* The row packer on its own.                                              *)
(***************************************************************************)
\* the 10 x 10 cm and 20 x 10 cm rectangles for the default 80 x 60 cm slab
RowExampleCatalogue ==
    <<Rectangle("a", 40, 40),
      Rectangle("b", 80, 40)>>

InitRow ==
    /\ \/ shapes \in ShapeLists(ShapeCatalogue) /\ slab \in SlabChoices
       \/ /\ shapes \in ShapeLists(RowExampleCatalogue)
          /\ slab = Slab(DefaultSlabWidth, DefaultSlabHeight)
    /\ spacing \in RowSpacingChoices
    /\ packerRotFirst = FALSE
    /\ InitCalls

ArrangeRow ==
    /\ ~rowOut.ran
    /\ rowOut' = Ran(arrangeShapesRow(shapes, spacing, slab))
    /\ UNCHANGED <<shapes, spacing, slab, packerRotFirst, pc, currentIteration, bestResult,
                   progressLog, candidateLog, returned, arrangeOut,
                   dxfOut, svgOut, collideOut, pointOut, validOut, page>>

NextRow == ArrangeRow

SpecRow == InitRow /\ [][NextRow]_vars

(***************************************************************************)
(* The three operations over one shape list.                               *)
(***************************************************************************)
FrameSlab == Slab(24, 16)

InitFrame ==
    /\ shapes \in ShapeLists(ShapeCatalogue)
    /\ spacing \in SpacingChoices
    /\ slab = FrameSlab
    /\ packerRotFirst \in BOOLEAN
    /\ InitCalls

NextFrame ==
    \/ Next
    \/ ArrangeRow

SpecFrame == InitFrame /\ [][NextFrame]_vars

(***************************************************************************)
(* Exporters.  Interchange coordinates are the model's lengths times 10.   *)
(***************************************************************************)
\* the gap between the slab and the shapes: 100 mm (DXF), 50 mm (SVG)
DxfShapeGap == 400
SvgShapeGap == 200

Entity(layer, kind, points, radius) ==
    [layer |-> layer, kind |-> kind, points |-> points, radius |-> radius]

\* the vertices (group codes 10 / 20) exportShapeGeometry writes for a shape
exportShapeGeometry(shape, offsetX, offsetY) ==
    LET x == offsetX + shape.x * 10
        y == offsetY + shape.y * 10
        w == shape.width * 10
        h == shape.height * 10
        lw == shape.legWidth * 10
        lh == shape.legHeight * 10
    IN  CASE shape.type = "rectangle" ->
                Entity("MarbleShapes", "LWPOLYLINE",
                       <<Pt(x, y), Pt(x + w, y), Pt(x + w, y + h), Pt(x, y + h), Pt(x, y)>>, 0)
          [] shape.type = "l-shape-tl" ->
                Entity("MarbleShapes", "LWPOLYLINE",
                       <<Pt(x, y), Pt(x + w, y), Pt(x + w, y + lh), Pt(x + lw, y + lh),
                         Pt(x + lw, y + h), Pt(x, y + h), Pt(x, y)>>, 0)
          [] shape.type = "l-shape-tr" ->
                Entity("MarbleShapes", "LWPOLYLINE",
                       <<Pt(x, y), Pt(x + w, y), Pt(x + w, y + h), Pt(x + w - lw, y + h),
                         Pt(x + w - lw, y + lh), Pt(x, y + lh), Pt(x, y)>>, 0)
          [] shape.type = "l-shape-bl" ->
                Entity("MarbleShapes", "LWPOLYLINE",
                       <<Pt(x, y), Pt(x + lw, y), Pt(x + lw, y + h - lh), Pt(x + w, y + h - lh),
                         Pt(x + w, y + h), Pt(x, y + h), Pt(x, y)>>, 0)
          [] shape.type = "l-shape-br" ->
                Entity("MarbleShapes", "LWPOLYLINE",
                       <<Pt(x, y), Pt(x + w, y), Pt(x + w, y + h - lh), Pt(x + w - lw, y + h - lh),
                         Pt(x + w - lw, y + h), Pt(x, y + h), Pt(x, y)>>, 0)
          [] shape.type = "triangle" ->
                Entity("MarbleShapes", "LWPOLYLINE",
                       <<Pt(x, y), Pt(x + shape.base * 10, y),
                         Pt(x + (shape.base * 10) \div 2, y + shape.height * 10), Pt(x, y)>>, 0)
          [] shape.type = "circle" ->
                Entity("MarbleShapes", "CIRCLE",
                       <<Pt(x + shape.radius * 10, y + shape.radius * 10)>>, shape.radius * 10)

\* exportToDXF = exportDXFVersion1: the slab outline, then the shapes beside it
exportToDXF(list, includeSlab, slabShape) ==
    LET shapeOffsetX == IF includeSlab THEN slabShape.width * 10 + DxfShapeGap ELSE 0
        slabOutline ==
            IF includeSlab
            THEN <<Entity("Slab", "LWPOLYLINE",
                          <<Pt(0, 0), Pt(slabShape.width * 10, 0),
                            Pt(slabShape.width * 10, slabShape.height * 10),
                            Pt(0, slabShape.height * 10), Pt(0, 0)>>, 0)>>
            ELSE <<>>
    IN  [offsetX |-> shapeOffsetX,
         entities |-> slabOutline
                        \o [k \in 1..Len(list) |-> exportShapeGeometry(list[k], shapeOffsetX, 0)]]

\* the element exportToSVG writes for one shape (a rect is kept as its corner
\* and size, a polygon as its points attribute)
SvgElement(shape, shapeOffsetX) ==
    LET x == shapeOffsetX + shape.x * 10
        y == shape.y * 10
        w == shape.width * 10
        h == shape.height * 10
        lw == shape.legWidth * 10
        lh == shape.legHeight * 10
    IN  CASE shape.type = "rectangle" ->
                [kind |-> "rect", points |-> <<Pt(x, y)>>, width |-> w, height |-> h, radius |-> 0]
          [] shape.type = "l-shape-tl" ->
                [kind |-> "polygon", width |-> 0, height |-> 0, radius |-> 0,
                 points |-> <<Pt(x, y), Pt(x + w, y), Pt(x + w, y + lh), Pt(x + lw, y + lh),
                              Pt(x + lw, y + h), Pt(x, y + h)>>]
          [] shape.type = "l-shape-tr" ->
                [kind |-> "polygon", width |-> 0, height |-> 0, radius |-> 0,
                 points |-> <<Pt(x, y), Pt(x + w, y), Pt(x + w, y + h), Pt(x + w - lw, y + h),
                              Pt(x + w - lw, y + lh), Pt(x, y + lh)>>]
          [] shape.type = "l-shape-bl" ->
                [kind |-> "polygon", width |-> 0, height |-> 0, radius |-> 0,
                 points |-> <<Pt(x, y), Pt(x + lw, y), Pt(x + lw, y + h - lh),
                              Pt(x + w, y + h - lh), Pt(x + w, y + h), Pt(x, y + h)>>]
          [] shape.type = "l-shape-br" ->
                [kind |-> "polygon", width |-> 0, height |-> 0, radius |-> 0,
                 points |-> <<Pt(x, y), Pt(x + w, y), Pt(x + w, y + h - lh),
                              Pt(x + w - lw, y + h - lh), Pt(x + w - lw, y + h), Pt(x, y + h)>>]
          [] shape.type = "triangle" ->
                [kind |-> "polygon", width |-> 0, height |-> 0, radius |-> 0,
                 points |-> <<Pt(x + (shape.base * 10) \div 2, y),
                              Pt(x + shape.base * 10, y + shape.height * 10),
                              Pt(x, y + shape.height * 10)>>]
          [] shape.type = "circle" ->
                [kind |-> "circle", width |-> 0, height |-> 0, radius |-> shape.radius * 10,
                 points |-> <<Pt(x + shape.radius * 10, y + shape.radius * 10)>>]

\* exportToSVG: the slab rect, then one element per shape beside it
exportToSVG(list, includeSlab, slabShape) ==
    LET shapeOffsetX == IF includeSlab THEN slabShape.width * 10 + SvgShapeGap ELSE 0
        slabRect ==
            IF includeSlab
            THEN <<[kind |-> "rect", points |-> <<Pt(0, 0)>>, width |-> slabShape.width * 10,
                    height |-> slabShape.height * 10, radius |-> 0]>>
            ELSE <<>>
    IN  [offsetX |-> shapeOffsetX,
         entities |-> slabRect \o [k \in 1..Len(list) |-> SvgElement(list[k], shapeOffsetX)]]

\* placed shapes of every type
ExportCatalogue ==
    <<Rectangle("r1", 8, 4),
      LShape("l1", "l-shape-tl", 8, 6, 4, 2),
      LShape("l2", "l-shape-tr", 8, 6, 4, 2),
      LShape("l3", "l-shape-bl", 8, 6, 4, 2),
      LShape("l4", "l-shape-br", 8, 6, 4, 2),
      Triangle("t1", 8, 4),
      Circle("c1", 2)>>

ExportPositions == {<<4, 4>>, <<12, 6>>}

InitExport ==
    /\ shapes \in {[k \in 1..Len(l) |-> MoveTo(l[k], pos[1] + 10 * (k - 1), pos[2])] :
                      l \in ShapeLists(ExportCatalogue) \ {<<>>}, pos \in ExportPositions}
    /\ spacing = 0
    /\ slab \in SlabChoices
    /\ packerRotFirst = FALSE
    /\ InitCalls

\* downloadDXF(arrangedShapes, spacing, includeSlab ? slab : undefined)
ExportDXF ==
    /\ ~dxfOut.ran
    /\ \E includeSlab \in BOOLEAN :
          dxfOut' = [ran |-> TRUE, out |-> exportToDXF(shapes, includeSlab, slab)]
    /\ UNCHANGED <<shapes, spacing, slab, packerRotFirst, pc, currentIteration, bestResult,
                   progressLog, candidateLog, returned, arrangeOut, rowOut,
                   svgOut, collideOut,
                   pointOut, validOut, page>>

\* downloadSVG(arrangedShapes, spacing, includeSlab ? slab : undefined)
ExportSVG ==
    /\ ~svgOut.ran
    /\ \E includeSlab \in BOOLEAN :
          svgOut' = [ran |-> TRUE, out |-> exportToSVG(shapes, includeSlab, slab)]
    /\ UNCHANGED <<shapes, spacing, slab, packerRotFirst, pc, currentIteration, bestResult,
                   progressLog, candidateLog, returned, arrangeOut, rowOut,
                   dxfOut, collideOut,
                   pointOut, validOut, page>>

NextExport ==
    \/ ExportDXF
    \/ ExportSVG

SpecExport == InitExport /\ [][NextExport]_vars

(***************************************************************************)
(* The collision test on its own: two placed shapes and a buffer.          *)
(***************************************************************************)
BufferChoices == {0, 1, 2}

\* two circles, the second shifted against the first; the last two pairs are
\* the radius 5 cm circles with coincident centres and with centres 11 cm apart
CirclePairs ==
    {<<MoveTo(Circle("c1", r1), 8, 8), MoveTo(Circle("c2", r2), 8 + dx, 8 + dy)>> :
        r1 \in {2, 3}, r2 \in {2, 3}, dx \in 0..7, dy \in {0, 3, 4}}
      \cup {<<MoveTo(Circle("c1", 20), 0, 0), MoveTo(Circle("c2", 20), dx, 0)>> : dx \in {0, 44}}

\* two rectangles, the second shifted against the first: inside it, across
\* its edges, beside it
RectanglePairs ==
    {<<MoveTo(Rectangle("r1", 12, 8), 4, 4), MoveTo(Rectangle("r2", w, h), 2 + dx, 2 + dy)>> :
        w \in {2, 4, 12}, h \in {2, 8}, dx \in 0..16, dy \in {0, 2, 3, 8, 12}}

\* a rectangle against a triangle, an L-shape or a circle shifted across it
MixedPairs ==
    {<<MoveTo(Rectangle("r1", 12, 8), 4, 4), MoveTo(other, dx, dy)>> :
        other \in {Triangle("t1", 8, 8), LShape("l1", "l-shape-tl", 8, 8, 4, 4), Circle("c1", 3)},
        dx \in {0, 2, 10, 16, 17}, dy \in {0, 4, 12, 13}}

InitCollide ==
    /\ shapes \in CirclePairs \cup RectanglePairs \cup MixedPairs
    /\ spacing = 0
    /\ slab = Slab(DefaultSlabWidth, DefaultSlabHeight)
    /\ packerRotFirst = FALSE
    /\ InitCalls

\* shapesCollide(a, b, buffer) and shapesCollide(b, a, buffer)
Collide ==
    /\ ~collideOut.ran
    /\ \E buffer \in BufferChoices :
          collideOut' = [ran |-> TRUE,
                         out |-> [buffer |-> buffer,
                                  ab |-> shapesCollide(shapes[1], shapes[2], buffer),
                                  ba |-> shapesCollide(shapes[2], shapes[1], buffer)]]
    /\ UNCHANGED <<shapes, spacing, slab, packerRotFirst, pc, currentIteration, bestResult,
                   progressLog, candidateLog, returned, arrangeOut, rowOut,
                   dxfOut, svgOut,
                   pointOut, validOut, page>>

NextCollide == Collide

SpecCollide == InitCollide /\ [][NextCollide]_vars

(***************************************************************************)
(* The point-in-polygon test on its own: one outline and one point.        *)
(***************************************************************************)
\* outlines with horizontal, vertical and slanted edges
PolygonCatalogue ==
    {MoveTo(Rectangle("r1", 8, 8), 2, 2), MoveTo(Rectangle("r2", 4, 12), 4, 0),
     MoveTo(Triangle("t1", 8, 8), 2, 2), MoveTo(LShape("l1", "l-shape-tl", 8, 8, 4, 4), 2, 2)}

\* the coordinates a tested point is drawn from, in quarter centimetres
PointCoordinates == 0..12

InitPoint ==
    /\ \E polygon \in PolygonCatalogue : shapes = <<polygon>>
    /\ spacing = 0
    /\ slab = Slab(DefaultSlabWidth, DefaultSlabHeight)
    /\ packerRotFirst = FALSE
    /\ InitCalls

\* pointInPolygon(point, getShapePoints(shape))
PointTest ==
    /\ ~pointOut.ran
    /\ \E px \in PointCoordinates, py \in PointCoordinates :
          LET point == Pt(Fx(px), Fx(py))
          IN  pointOut' = [ran |-> TRUE,
                           out |-> [point |-> point,
                                    inside |-> pointInPolygon(point, getShapePoints(shapes[1]))]]
    /\ UNCHANGED <<shapes, spacing, slab, packerRotFirst, pc, currentIteration, bestResult,
                   progressLog, candidateLog, returned, arrangeOut, rowOut,
                   dxfOut, svgOut, collideOut, validOut, page>>

NextPoint == PointTest

SpecPoint == InitPoint /\ [][NextPoint]_vars

(***************************************************************************)
(* The validity check on its own: a placed list, a slab and a spacing.     *)
(***************************************************************************)
\* spacings in quarter centimetres, even so that spacing / 2 is exact
ValidateSpacings == {0, 2, 4, 6}

InitValidate ==
    /\ shapes \in CirclePairs \cup RectanglePairs \cup MixedPairs
    /\ spacing = 0
    /\ slab = Slab(DefaultSlabWidth, DefaultSlabHeight)
    /\ packerRotFirst = FALSE
    /\ InitCalls

\* isValidArrangement(shapes, slab, sp)
Validate ==
    /\ ~validOut.ran
    /\ \E sp \in ValidateSpacings :
          validOut' = [ran |-> TRUE,
                       out |-> [spacing |-> sp,
                                valid |-> isValidArrangement(shapes, slab, sp)]]
    /\ UNCHANGED <<shapes, spacing, slab, packerRotFirst, pc, currentIteration, bestResult,
                   progressLog, candidateLog, returned, arrangeOut, rowOut,
                   dxfOut, svgOut, collideOut, pointOut, page>>

NextValidate == Validate

SpecValidate == InitValidate /\ [][NextValidate]_vars

(***************************************************************************)
(* The Index page: its handlers, and the optimization it awaits.  A shape  *)
(* is kept by its id; what optimizeNesting reports is a placement of the   *)
(* shapes the call captured, or nothing while no candidate has validated.  *)
(***************************************************************************)
ShapeIds == {"a", "b", "c"}

Ids(list) == {list[i] : i \in 1..Len(list)}

\* list.filter(s => s.id !== id)
WithoutId(list, id) == SelectSeq(list, LAMBDA s : s # id)

\* ids no shape on the page or in a running call has (crypto.randomUUID)
FreshIds ==
    ShapeIds \ (Ids(page.shapes) \cup Ids(page.arrangedShapes)
                  \cup UNION {Ids(page.calls[r].shapes) : r \in Runs})

\* Faulty variant: the buttons are disabled for an empty list only.
ButtonsDisabledEmptyOnly == Len(page.shapes) = 0

\* disabled={shapes.length === 0 || isOptimizing}
ButtonsDisabled == Len(page.shapes) = 0 \/ page.isOptimizing

PageFrame ==
    UNCHANGED <<shapes, spacing, slab, packerRotFirst, pc, currentIteration, bestResult,
                progressLog, candidateLog, returned, arrangeOut, rowOut,
                dxfOut, svgOut, collideOut, pointOut, validOut>>

InitPage ==
    /\ shapes = <<>>
    /\ spacing = 0
    /\ slab = Slab(DefaultSlabWidth, DefaultSlabHeight)
    /\ packerRotFirst = FALSE
    /\ InitCalls

\* handleAddShape with a slab
handleAddSlab ==
    /\ page' = [page EXCEPT !.slab = TRUE, !.editingShape = <<>>]
    /\ PageFrame

\* handleAddShape with a new shape or, while editing, with the edited one
handleAddShape ==
    /\ page.slab
    /\ IF page.editingShape # <<>>
       THEN \* both lists are mapped; the edited shape keeps the id
            page' = [page EXCEPT !.editingShape = <<>>]
       ELSE /\ Len(page.shapes) < MaxShapes
            /\ \E id \in FreshIds : page' = [page EXCEPT !.shapes = Append(@, id)]
    /\ PageFrame

handleEditShape ==
    /\ \E i \in 1..Len(page.shapes) : page' = [page EXCEPT !.editingShape = <<page.shapes[i]>>]
    /\ PageFrame

handleCancelEdit ==
    /\ page.editingShape # <<>>
    /\ page' = [page EXCEPT !.editingShape = <<>>]
    /\ PageFrame

handleRemoveShape ==
    /\ \E i \in 1..Len(page.shapes) :
          page' = [page EXCEPT !.shapes = WithoutId(@, page.shapes[i]),
                               !.arrangedShapes = WithoutId(@, page.shapes[i])]
    /\ PageFrame

\* handleUpdateShapes(updatedShapes): the list comes from the caller
handleUpdateShapes ==
    /\ \E updatedShapes \in {page.shapes, page.arrangedShapes} :
          page' = [page EXCEPT !.shapes = updatedShapes, !.arrangedShapes = <<>>]
    /\ PageFrame

\* the Quick button: arrangeShapes returns every shape of the list, placed
handleArrange ==
    /\ ~ButtonsDisabled
    /\ page.slab
    /\ page' = [page EXCEPT !.arrangedShapes = page.shapes]
    /\ PageFrame

\* the Optimize button, up to the await of optimizeNesting
handleOptimize(r) ==
    /\ ~ButtonsDisabled
    /\ page.slab
    /\ Len(page.shapes) # 0
    /\ ~page.calls[r].running
    /\ page' = [page EXCEPT !.isOptimizing = TRUE,
                            !.optimizationProgress = 0,
                            !.calls[r] = [running |-> TRUE, shapes |-> page.shapes,
                                          currentIteration |-> 0, found |-> FALSE]]
    /\ PageFrame

\* one iteration of the awaited optimizeNesting and its onProgress callback;
\* valid tells whether the iteration's candidate validated
onProgress(r) ==
    /\ page.calls[r].running
    /\ page.calls[r].currentIteration < LoopLength
    /\ \E valid \in BOOLEAN :
          LET iteration == page.calls[r].currentIteration + 1
              found == page.calls[r].found \/ valid
          IN  page' = [page EXCEPT
                         !.optimizationProgress = iteration * 100,
                         !.arrangedShapes = IF found THEN page.calls[r].shapes ELSE @,
                         !.calls[r].currentIteration = iteration,
                         !.calls[r].found = found]
    /\ PageFrame

\* optimizeNesting resolves: the rest of the try block, then finally
OptimizeResolves(r) ==
    /\ page.calls[r].running
    /\ page.calls[r].currentIteration = LoopLength
    /\ page' = [page EXCEPT
                  !.arrangedShapes = IF page.calls[r].found THEN page.calls[r].shapes ELSE <<>>,
                  !.isOptimizing = FALSE,
                  !.optimizationProgress = 0,
                  !.calls[r] = NoRun]
    /\ PageFrame

\* optimizeNesting rejects in an iteration: catch, then finally
OptimizeRejects(r) ==
    /\ page.calls[r].running
    /\ page.calls[r].currentIteration < LoopLength
    /\ page' = [page EXCEPT !.isOptimizing = FALSE,
                            !.optimizationProgress = 0,
                            !.calls[r] = NoRun]
    /\ PageFrame

\* handleImport once the file is parsed: a file with shapes in it
handleImport ==
    /\ \E id \in FreshIds, withSlab \in BOOLEAN :
          page' = [page EXCEPT !.slab = @ \/ withSlab,
                               !.shapes = <<id>>,
                               !.arrangedShapes = <<>>]
    /\ PageFrame

NextPage ==
    \/ handleAddSlab
    \/ handleAddShape
    \/ handleEditShape
    \/ handleCancelEdit
    \/ handleRemoveShape
    \/ handleUpdateShapes
    \/ handleArrange
    \/ \E r \in Runs : handleOptimize(r)
    \/ \E r \in Runs : onProgress(r)
    \/ \E r \in Runs : OptimizeResolves(r)
    \/ \E r \in Runs : OptimizeRejects(r)
    \/ handleImport

SpecPage == InitPage /\ [][NextPage]_vars

\* the event loop runs the continuation of every pending await
SpecPageFair ==
    SpecPage /\ \A r \in Runs : WF_vars(onProgress(r) \/ OptimizeResolves(r))

(***************************************************************************)
(* Properties.                                                             *)
(***************************************************************************)
\* the placements optimizeNesting has returned so far
ReturnedPlacements == {returned[r][1].shapes : r \in {q \in Runs : returned[q] # <<>>}}

\* the results optimizeNesting has returned or reported through onProgress
ReportedResults ==
    {returned[r][1] : r \in {q \in Runs : returned[q] # <<>>}}
      \cup UNION {{progressLog[r][k].bestSoFar : k \in 1..Len(progressLog[r])} : r \in Runs}

\* C1: no two distinct shapes of a placement returned by optimizeNesting
\* collide at buffer spacing / 2.
C1_OptimizeNoOverlap ==
    \A out \in ReturnedPlacements :
        \A i, j \in 1..Len(out) :
            i # j => ~shapesCollide(out[i], out[j], spacing \div 2)

\* a returned placement of two shapes, for a spacing below the 0.5 cm minimum
C1_Witness ==
    /\ spacing < MinSpacing
    /\ \E out \in ReturnedPlacements : Len(out) >= 2

\* C2: every shape of a placement returned by optimizeNesting has its
\* bounding box inside [1, slabWidth - 1] x [1, slabHeight - 1] (cm).
C2_OptimizeInBounds ==
    \A out \in ReturnedPlacements :
        \A i \in 1..Len(out) :
            LET box == getShapeBoundingBox(out[i])
            IN  /\ box.minX >= Margin
                /\ box.minY >= Margin
                /\ box.maxX <= slab.width - Margin
                /\ box.maxY <= slab.height - Margin

\* a returned placement whose last shape does not sit at the origin corner
C2_Witness ==
    \E out \in ReturnedPlacements :
        /\ Len(out) >= 2
        /\ out[Len(out)].x > Margin \/ out[Len(out)].y > Margin

\* C3: no two distinct shapes in the output of the row-packing
\* arrangeShapes collide at buffer spacing / 2, for every spacing >= 0.
C3_RowNoOverlap ==
    rowOut.ran =>
        \A i, j \in 1..Len(rowOut.out) :
            i # j => ~shapesCollide(rowOut.out[i], rowOut.out[j], spacing \div 2)

\* C4 as stated: every shape in the output of the row-packing arrangeShapes
\* has its bounding box inside [1, slabWidth - 1] x [1, slabHeight - 1] (cm).
C4_RowInBounds ==
    rowOut.ran =>
        \A i \in 1..Len(rowOut.out) :
            LET box == getShapeBoundingBox(rowOut.out[i])
            IN  /\ box.minX >= Margin
                /\ box.minY >= Margin
                /\ box.maxX <= slab.width - Margin
                /\ box.maxY <= slab.height - Margin

\* C4 as amended: for spacing >= 0 every shape in the output of the
\* row-packing arrangeShapes starts at or after the 1 cm margin in x and y,
\* and ends at or before slabWidth - 1 cm whenever it is no wider than
\* slabWidth - 2 cm; nothing bounds it from below.
C4_RowInBoundsAmended ==
    rowOut.ran /\ spacing >= 0 =>
        \A i \in 1..Len(rowOut.out) :
            LET box == getShapeBoundingBox(rowOut.out[i])
            IN  /\ box.minX >= Margin
                /\ box.minY >= Margin
                /\ (box.maxX - box.minX <= slab.width - 2 * Margin
                      => box.maxX <= slab.width - Margin)

\* the row packer wrapped to a second row, and a shape ends below the slab's
\* usable height
C4_Witness ==
    /\ rowOut.ran
    /\ \E i \in 1..Len(rowOut.out) :
          /\ rowOut.out[i].y > Margin
          /\ getShapeBoundingBox(rowOut.out[i]).maxY > slab.height - Margin

C6_ProgressMonotone ==
    \A r \in Runs : \A k \in 1..(Len(progressLog[r]) - 1) :
        Len(progressLog[r][k].bestSoFar.shapes)
            <= Len(progressLog[r][k + 1].bestSoFar.shapes)

\* a run reported a non-empty best and then went through an iteration
\* whose candidate did not validate
C6_Witness ==
    \E r \in Runs : \E k \in 1..(Len(progressLog[r]) - 1) :
        /\ Len(progressLog[r][k].bestSoFar.shapes) > 0
        /\ ~candidateLog[r][k + 1].isValid

\* every shape optimizeNesting returned or reported, and every shape the
\* MaxRects-based arrangeShapes returned
AdapterOutputShapes ==
    UNION {{res.shapes[i] : i \in 1..Len(res.shapes)} : res \in ReportedResults}
      \cup {arrangeOut.out[i] : i \in 1..Len(arrangeOut.out)}

InputShape(id) == CHOOSE s \in {shapes[i] : i \in 1..Len(shapes)} : s.id = id

\* C7: a circle or L-shape in the adapter's output has the width, height,
\* radius, legWidth and legHeight of its input shape.
C7_NoRotationOfFixedShapes ==
    \A s \in AdapterOutputShapes :
        s.type = "circle" \/ s.type \in LShapeTypes =>
            /\ s.type = InputShape(s.id).type
            /\ s.width = InputShape(s.id).width
            /\ s.height = InputShape(s.id).height
            /\ s.radius = InputShape(s.id).radius
            /\ s.legWidth = InputShape(s.id).legWidth
            /\ s.legHeight = InputShape(s.id).legHeight

\* the packer turned the rectangle of an L-shape, and the L-shape is in the
\* output of arrangeShapes and in a result of optimizeNesting
C7_Witness ==
    /\ packerRotFirst
    /\ \E i \in 1..Len(arrangeOut.out) : arrangeOut.out[i].type \in LShapeTypes
    /\ \E r \in Runs :
          /\ returned[r] # <<>>
          /\ returned[r][1].iteration % 2 = 1
          /\ \E i \in 1..Len(returned[r][1].shapes) :
                returned[r][1].shapes[i].type \in LShapeTypes

BoxArea(shape) ==
    LET box == getShapeBoundingBox(shape)
    IN  (box.maxX - box.minX) * (box.maxY - box.minY)

RECURSIVE SumBoxArea(_)
SumBoxArea(list) ==
    IF list = <<>> THEN 0 ELSE BoxArea(Head(list)) + SumBoxArea(Tail(list))

ValidCandidates(r) ==
    {k \in 1..Len(candidateLog[r]) :
        candidateLog[r][k].isValid /\ Len(candidateLog[r][k].arranged) > 0}

\* candidate k of run r beats candidate j: more shapes, or as many on more area
Beats(r, k, j) ==
    LET a == candidateLog[r][k].arranged
        b == candidateLog[r][j].arranged
    IN  \/ Len(a) > Len(b)
        \/ Len(a) = Len(b) /\ SumBoxArea(a) > SumBoxArea(b)

ExpectedIterations ==
    <<<<"area-desc", TRUE>>, <<"area-desc", FALSE>>,
      <<"area-asc", TRUE>>, <<"area-asc", FALSE>>,
      <<"width-desc", TRUE>>, <<"width-desc", FALSE>>,
      <<"height-desc", TRUE>>, <<"height-desc", FALSE>>,
      <<"perimeter-desc", TRUE>>, <<"perimeter-desc", FALSE>>,
      <<"aspect-ratio", TRUE>>, <<"aspect-ratio", FALSE>>,
      <<"mixed-strategy", TRUE>>, <<"mixed-strategy", FALSE>>>>

C11_PackerFailureCaught ==
    \A r \in Runs :
        /\ pc[r] # "rejected"
        /\ Len(progressLog[r]) = currentIteration[r]
        /\ (pc[r] = "done" /\ Len(shapes) > 0 => currentIteration[r] = LoopLength)

\* C12: a run over a non-empty list in which no iteration gave a valid
\* non-empty candidate completes (it is not rejected) and returns the initial
\* empty result: no shapes, efficiency 0, usedArea 0, totalArea = slab area.
C12_NoValidPlacement ==
    \A r \in Runs :
        /\ pc[r] \in {"idle", "loop", "done"}
        /\ (pc[r] = "done" /\ Len(shapes) > 0 /\ ValidCandidates(r) = {} =>
              /\ Len(returned[r]) = 1
              /\ returned[r][1].shapes = <<>>
              /\ returned[r][1].efficiency.num = 0
              /\ returned[r][1].usedArea = 0
              /\ returned[r][1].totalArea = slab.width * slab.height
              /\ returned[r][1].iteration = 0)

\* a run over a shape that fits no bin is over, all 14 candidates rejected
C12_Witness ==
    \E r \in Runs :
        /\ pc[r] = "done"
        /\ Len(shapes) > 0
        /\ Len(candidateLog[r]) = LoopLength
        /\ ValidCandidates(r) = {}

\* C13: for an empty shape list optimizeNesting returns at once: shapes = [],
\* efficiency 0, totalArea = slab width x slab height, no iteration is run and
\* onProgress is never called.
C13_EmptyList ==
    \A r \in Runs :
        Len(shapes) = 0 =>
            /\ pc[r] \in {"idle", "done"}
            /\ currentIteration[r] = 0
            /\ candidateLog[r] = <<>>
            /\ progressLog[r] = <<>>
            /\ (pc[r] = "done" =>
                  /\ Len(returned[r]) = 1
                  /\ returned[r][1].shapes = <<>>
                  /\ returned[r][1].efficiency.num = 0
                  /\ returned[r][1].totalArea = slab.width * slab.height)

\* optimizeNesting has returned for an empty list
C13_Witness ==
    \E r \in Runs : Len(shapes) = 0 /\ pc[r] = "done" /\ returned[r] # <<>>

\* the lists built by the Bin Packer adapter: every candidate of
\* optimizeNesting and the output of the MaxRects-based arrangeShapes
AdapterLists ==
    UNION {{candidateLog[r][k].arranged : k \in 1..Len(candidateLog[r])} : r \in Runs}
      \cup (IF arrangeOut.ran THEN {arrangeOut.out} ELSE {})

\* the bounding box of a placed shape lies in the slab-sized bin
InsideBin(shape) ==
    /\ shape.x >= Margin
    /\ shape.y >= Margin
    /\ shape.x + getShapeBounds(shape).width <= SlabWidth(slab) - Margin
    /\ shape.y + getShapeBounds(shape).height <= SlabHeight(slab) - Margin

\* no orientation of the shape's bounding box fits the bin
FitsNoBin(shape) ==
    LET bounds == getShapeBounds(shape)
        usableWidth == SlabWidth(slab) - 2 * Margin
        usableHeight == SlabHeight(slab) - 2 * Margin
    IN  /\ bounds.width > usableWidth \/ bounds.height > usableHeight
        /\ bounds.height > usableWidth \/ bounds.width > usableHeight

OutputLists ==
    {res.shapes : res \in ReportedResults}
      \cup (IF arrangeOut.ran THEN {arrangeOut.out} ELSE {})
      \cup (IF rowOut.ran THEN {rowOut.out} ELSE {})

\* out is the input shape inp, moved and possibly turned by a quarter
PlacedFrom(out, inp) ==
    /\ out.id = inp.id
    /\ out.type = inp.type
    /\ out.legWidth = inp.legWidth
    /\ out.legHeight = inp.legHeight
    /\ out.radius = inp.radius
    /\ \/ out.width = inp.width /\ out.height = inp.height /\ out.base = inp.base
       \/ /\ inp.type = "rectangle"
          /\ out.width = inp.height /\ out.height = inp.width /\ out.base = inp.base
       \/ /\ inp.type = "triangle"
          /\ out.base = inp.height /\ out.height = inp.base /\ out.width = inp.width

OutputsFromInputs ==
    \A list \in OutputLists :
        /\ \A i \in 1..Len(list) : \E k \in 1..Len(shapes) : PlacedFrom(list[i], shapes[k])
        /\ \A i, j \in 1..Len(list) : i # j => list[i].id # list[j].id

\* C15: no operation changes the caller's shape list or a shape in it, and
\* every output shape is one input shape, each at most once, equal to it in
\* every field but x, y and the swapped dimensions of a turned rectangle or
\* triangle.
C15_Frame == [][shapes' = shapes]_vars /\ []OutputsFromInputs

\* all three operations have returned two shapes, the optimizer a turned one
C15_Witness ==
    /\ arrangeOut.ran /\ Len(arrangeOut.out) = 2
    /\ rowOut.ran /\ Len(rowOut.out) = 2
    /\ \E r \in Runs :
          /\ returned[r] # <<>>
          /\ Len(returned[r][1].shapes) = 2
          /\ \E i \in 1..2 :
                /\ returned[r][1].shapes[i].type = "rectangle"
                /\ returned[r][1].shapes[i].width # InputShape(returned[r][1].shapes[i].id).width

\* C16: every shape in the output of the arrangeShapes that handleArrange
\* calls has the width, height, base and radius of its input shape.
C16_QuickArrangeNoRotation ==
    \A i \in 1..Len(arrangeOut.out) :
        LET out == arrangeOut.out[i]
        IN  /\ out.width = InputShape(out.id).width
            /\ out.height = InputShape(out.id).height
            /\ out.base = InputShape(out.id).base
            /\ out.radius = InputShape(out.id).radius

\* the first n exported vertices are the n outline points of the collision
\* detector, times 10 and shifted by the export offset
SameVertices(points, shape, offsetX) ==
    LET outline == getShapePoints(shape)
    IN  /\ Len(points) >= Len(outline)
        /\ \A i \in 1..Len(outline) :
              /\ points[i].x * 10 = offsetX * 10 + outline[i].x
              /\ points[i].y * 10 = outline[i].y

\* the element written for shape k (the slab, when included, comes first)
WrittenFor(export, k) == export.entities[Len(export.entities) - Len(shapes) + k]

\* C17: the closed polyline of the DXF exporter and the polygon of the SVG
\* exporter have the vertices of getShapePoints, in its order, times 10 and
\* shifted by the export offset.
C17_ExportMatchesOutline ==
    /\ dxfOut.ran =>
          \A k \in 1..Len(shapes) :
              LET e == WrittenFor(dxfOut.out, k)
              IN  e.kind = "LWPOLYLINE" =>
                      /\ Len(e.points) = Len(getShapePoints(shapes[k])) + 1
                      /\ e.points[Len(e.points)] = e.points[1]
                      /\ SameVertices(e.points, shapes[k], dxfOut.out.offsetX)
    /\ svgOut.ran =>
          \A k \in 1..Len(shapes) :
              LET e == WrittenFor(svgOut.out, k)
              IN  e.kind = "polygon" =>
                      /\ Len(e.points) = Len(getShapePoints(shapes[k]))
                      /\ SameVertices(e.points, shapes[k], svgOut.out.offsetX)

\* the squared distance between the centres of two circles
CentreDistanceSquared(a, b) ==
    ((b.x + b.radius) - (a.x + a.radius)) * ((b.x + b.radius) - (a.x + a.radius))
      + ((b.y + b.radius) - (a.y + a.radius)) * ((b.y + b.radius) - (a.y + a.radius))

\* C18: two circles collide exactly when the distance between their centres
\* (x + radius, y + radius) is below radiusA + radiusB + buffer; two circles
\* of radius 5 cm collide at buffer 0 with coincident centres and do not with
\* centres 11 cm apart.
C18_CirclesByDistance ==
    collideOut.ran /\ shapes[1].type = "circle" /\ shapes[2].type = "circle" =>
        LET reach == shapes[1].radius + shapes[2].radius + collideOut.out.buffer
            near == CentreDistanceSquared(shapes[1], shapes[2]) < reach * reach
        IN  /\ collideOut.out.ab = near
            /\ collideOut.out.ba = near
            /\ (shapes[1].radius = 20 /\ collideOut.out.buffer = 0 =>
                  collideOut.out.ab = (shapes[2].x = shapes[1].x))

\* circles whose centres are exactly radiusA + radiusB + buffer apart were
\* tested, and so were circles nearer and farther than that
C18_Witness ==
    /\ collideOut.ran
    /\ shapes[1].type = "circle" /\ shapes[2].type = "circle"
    /\ LET reach == shapes[1].radius + shapes[2].radius + collideOut.out.buffer
       IN  CentreDistanceSquared(shapes[1], shapes[2]) = reach * reach
    /\ ~collideOut.out.ab

\* rectangle inner lies in rectangle outer, no edge of one on an edge of the other
StrictlyInside(inner, outer) ==
    /\ inner.x > outer.x
    /\ inner.y > outer.y
    /\ inner.x + inner.width < outer.x + outer.width
    /\ inner.y + inner.height < outer.y + outer.height

\* C19: when one of two rectangles lies entirely inside the other, they
\* collide for every buffer >= 0, in either argument order.
C19_NestedRectanglesCollide ==
    /\ collideOut.ran
    /\ shapes[1].type = "rectangle" /\ shapes[2].type = "rectangle"
    /\ StrictlyInside(shapes[2], shapes[1]) \/ StrictlyInside(shapes[1], shapes[2])
    => collideOut.out.ab /\ collideOut.out.ba

\* a rectangle strictly inside another was tested at a buffer above 0
C19_Witness ==
    /\ collideOut.ran
    /\ shapes[1].type = "rectangle" /\ shapes[2].type = "rectangle"
    /\ StrictlyInside(shapes[2], shapes[1])
    /\ collideOut.out.buffer > 0
    /\ collideOut.out.ab /\ collideOut.out.ba

RECURSIVE SumBoundsWidth(_)
SumBoundsWidth(list) ==
    IF list = <<>> THEN 0
    ELSE getShapeBounds(Head(list)).width + SumBoundsWidth(Tail(list))

\* the shapes, spacing apart, end at or before slabWidth - 1 on one row
FitsFirstRow ==
    Margin + SumBoundsWidth(shapes) + (Len(shapes) - 1) * spacing <= SlabWidth(slab) - Margin

\* C20: for spacing >= 0.5 cm and shapes that fit on the first row, the row
\* packer places the shapes in input order at y = 1, the first at x = 1 and
\* each next one at the previous x + the previous bounding-box width +
\* spacing; on the 80 x 60 slab the 10 x 10 and 20 x 10 rectangles at spacing
\* 1 go to (1,1) and (12,1).
C20_FirstRowPositions ==
    rowOut.ran /\ spacing >= MinSpacing /\ FitsFirstRow =>
        /\ Len(rowOut.out) = Len(shapes)
        /\ \A i \in 1..Len(shapes) :
              /\ rowOut.out[i] = MoveTo(shapes[i], rowOut.out[i].x, Margin)
              /\ rowOut.out[i].x =
                    IF i = 1 THEN Margin
                    ELSE rowOut.out[i - 1].x + getShapeBounds(rowOut.out[i - 1]).width + spacing
        /\ (/\ shapes = RowExampleCatalogue
            /\ spacing = 4
            => rowOut.out = <<MoveTo(shapes[1], 4, 4), MoveTo(shapes[2], 48, 4)>>)

\* the two rectangles of the example have been arranged at spacing 1 cm
C20_Witness ==
    /\ rowOut.ran
    /\ spacing = 4
    /\ FitsFirstRow
    /\ shapes = RowExampleCatalogue
    /\ Len(rowOut.out) = 2

\* C21: in the output of the row packer a shape follows its predecessor on
\* the same row at x + width + max(spacing, 0.5 cm), or opens a new row at
\* x = 1 at least the predecessor's height + max(spacing, 0.5 cm) further
\* down; so neighbours are at least 0.5 cm apart whatever the spacing.
C21_RowMinimumGap ==
    rowOut.ran =>
        \A i \in 1..(Len(rowOut.out) - 1) :
            LET prev == rowOut.out[i]
                next == rowOut.out[i + 1]
                gap == Max(spacing, MinSpacing)
            IN  \/ /\ next.y = prev.y
                   /\ next.x = prev.x + getShapeBounds(prev).width + gap
                \/ /\ next.x = Margin
                   /\ next.y >= prev.y + getShapeBounds(prev).height + gap

\* the two bounding boxes, each expanded by buffer on all sides, intersect
ExpandedBoxesIntersect(a, b, buffer) ==
    LET b1 == getShapeBoundingBox(a)
        b2 == getShapeBoundingBox(b)
    IN  /\ b1.minX - buffer <= b2.maxX + buffer
        /\ b2.minX - buffer <= b1.maxX + buffer
        /\ b1.minY - buffer <= b2.maxY + buffer
        /\ b2.minY - buffer <= b1.maxY + buffer

\* a buffer under which the expanded boxes of any two shapes on a slab intersect
FarBuffer == DefaultSlabWidth

\* C22: for a pair that is not two circles shapesCollide is false when the
\* expanded bounding boxes do not intersect, and when they intersect its
\* result is the one it has for every other buffer under which they
\* intersect: the buffer takes no part in the outline test.
C22_BufferOnlyInBoxCheck ==
    (collideOut.ran /\ ~(shapes[1].type = "circle" /\ shapes[2].type = "circle")) =>
        LET a == shapes[1]
            b == shapes[2]
            buffer == collideOut.out.buffer
        IN  /\ ExpandedBoxesIntersect(a, b, FarBuffer)
            /\ IF ExpandedBoxesIntersect(a, b, buffer)
               THEN \A other \in BufferChoices \cup {FarBuffer} :
                        ExpandedBoxesIntersect(a, b, other) =>
                            collideOut.out.ab = shapesCollide(a, b, other)
               ELSE ~collideOut.out.ab

\* a rectangle and a triangle whose boxes meet only once expanded, their
\* outlines apart: no collision although the expanded boxes intersect
C22_Witness ==
    /\ collideOut.ran
    /\ shapes[2].type = "triangle"
    /\ collideOut.out.buffer > 0
    /\ ~ExpandedBoxesIntersect(shapes[1], shapes[2], 0)
    /\ ExpandedBoxesIntersect(shapes[1], shapes[2], collideOut.out.buffer)
    /\ ~collideOut.out.ab

\* point p lies on the segment from a to b, end points included
OnSegment(p, a, b) ==
    /\ (b.x - a.x) * (p.y - a.y) = (b.y - a.y) * (p.x - a.x)
    /\ Min(a.x, b.x) <= p.x /\ p.x <= Max(a.x, b.x)
    /\ Min(a.y, b.y) <= p.y /\ p.y <= Max(a.y, b.y)

\* point p lies on an edge or at a vertex of the polygon
OnOutline(p, polygon) ==
    \E i \in 1..Len(polygon) :
        OnSegment(p, polygon[i], polygon[(i % Len(polygon)) + 1])

\* C23: pointInPolygon returns false for a point on an edge or at a vertex of
\* the outline, whichever side of the outline the point lies on.
C23_BoundaryIsOutside ==
    (pointOut.ran /\ OnOutline(pointOut.out.point, getShapePoints(shapes[1]))) =>
        ~pointOut.out.inside

\* the bounding boxes of a and b are at least gap apart along x or along y
BoxesApart(a, b, gap) ==
    LET b1 == getShapeBoundingBox(a)
        b2 == getShapeBoundingBox(b)
    IN  \/ b1.maxX + gap <= b2.minX \/ b2.maxX + gap <= b1.minX
        \/ b1.maxY + gap <= b2.minY \/ b2.maxY + gap <= b1.minY

RECURSIVE RunAlone(_)
RunAlone(n) ==
    IF n = 0
    THEN [best |-> InitialResult(slab), log |-> <<>>]
    ELSE LET before == RunAlone(n - 1)
             cand == Candidate(SortedCopy(shapes, StrategyOf(n)).sortedShapes, spacing, slab,
                               AllowRotationOf(n), packerRotFirst)
             best == UpdateBest(before.best, cand, slab, n)
         IN  [best |-> best, log |-> Append(before.log, ProgressCall(n, best))]

\* C25: whatever the interleaving of two runs at their awaits, each run has
\* reported through onProgress, and returns, exactly what a run alone on the
\* same input reports and returns.
C25_RunsIndependent ==
    LET alone == RunAlone(Max(currentIteration[1], currentIteration[2]))
    IN  \A r \in Runs :
            /\ progressLog[r] = SubSeq(alone.log, 1, currentIteration[r])
            /\ returned[r] # <<>> =>
                  returned[r][1] = IF Len(shapes) = 0 THEN EmptyResult(slab)
                                   ELSE RunAlone(LoopLength).best

\* both runs are in their loops at different iterations, the second ahead of
\* the first, each holding a placement of two shapes
C25_Witness ==
    /\ pc[1] = "loop" /\ pc[2] = "loop"
    /\ 0 < currentIteration[1] /\ currentIteration[1] < currentIteration[2]
    /\ Len(bestResult[1].shapes) = 2 /\ Len(bestResult[2].shapes) = 2

\* the rectangles of packer.bins after adding the list, bin by bin
PackedRects(list, sp, allowRotation) ==
    LET bins == PackerAddArray(<<>>, PackableShapes(list), 1,
                               SlabWidth(slab) - Margin * 2, SlabHeight(slab) - Margin * 2,
                               Max(sp, MinSpacing), allowRotation, packerRotFirst)
        RECURSIVE Flat(_)
        Flat(i) == IF i > Len(bins) THEN <<>> ELSE bins[i].rects \o Flat(i + 1)
    IN  Flat(1)

\* the bounding box of the shape is the packed rectangle moved by the margin
BoxIsRect(shape, rect) ==
    getShapeBoundingBox(shape) =
        [minX |-> rect.x + Margin, minY |-> rect.y + Margin,
         maxX |-> rect.x + Margin + rect.width, maxY |-> rect.y + Margin + rect.height]

\* the adapter's list has one shape per packed rectangle, each with the
\* rectangle's data and a bounding box equal to the rectangle moved by 1 cm
MatchesRects(list, rects) ==
    /\ Len(list) = Len(rects)
    /\ \A k \in 1..Len(list) :
          list[k].id = rects[k].shapeData.id /\ BoxIsRect(list[k], rects[k])

\* C26: every shape the adapter rebuilds, in an iteration of optimizeNesting
\* or in the MaxRects-based arrangeShapes, has the bounding box of the
\* rectangle the packer reserved for it (width and height as the packer left
\* them, swapped when it turned the rectangle) moved by +1 cm in x and y.
C26_BoxIsReservedRectangle ==
    /\ \A r \in Runs : \A k \in 1..Len(candidateLog[r]) :
          MatchesRects(candidateLog[r][k].arranged,
                       PackedRects(SortedCopy(shapes, candidateLog[r][k].strategy).sortedShapes,
                                   spacing, candidateLog[r][k].allowRotation))
    /\ arrangeOut.ran =>
          MatchesRects(arrangeOut.out, PackedRects(StableSort(shapes, "area-desc"), spacing, TRUE))

\* C27: shapesCollide gives the same answer whichever of the two shapes is
\* passed first, for every pair of shapes and every buffer.
C27_CollideSymmetric ==
    collideOut.ran => collideOut.out.ab = collideOut.out.ba

\* a rectangle colliding with a shape of another type, in both orders
C27_Witness ==
    /\ collideOut.ran
    /\ shapes[1].type # shapes[2].type
    /\ collideOut.out.ab /\ collideOut.out.ba

\* C28: a list that isValidArrangement accepts for a spacing is accepted for
\* every smaller spacing, and a pair that collides at a buffer collides at
\* every larger buffer.
C28_ValidityMonotone ==
    validOut.ran =>
        /\ validOut.out.valid =>
              \A s1 \in ValidateSpacings :
                  s1 <= validOut.out.spacing => isValidArrangement(shapes, slab, s1)
        /\ \A b1, b2 \in {sp \div 2 : sp \in ValidateSpacings} :
              (b1 <= b2 /\ shapesCollide(shapes[1], shapes[2], b1)) =>
                  shapesCollide(shapes[1], shapes[2], b2)

\* a pair accepted for a positive spacing and refused for a larger one
C28_Witness ==
    /\ validOut.ran
    /\ validOut.out.valid
    /\ validOut.out.spacing > 0
    /\ \E s2 \in ValidateSpacings :
          s2 > validOut.out.spacing /\ ~isValidArrangement(shapes, slab, s2)

\* C29: every id in arrangedShapes is the id of a shape in shapes, whatever
\* the user does while an optimization reports progress and completes.
C29_ArrangedAreShapes ==
    Ids(page.arrangedShapes) \subseteq Ids(page.shapes)

\* the handleOptimize calls in flight
InFlight == {r \in Runs : page.calls[r].running}

\* C30: isOptimizing is true exactly while a handleOptimize call is in
\* flight; at most one call is in flight; while isOptimizing is true neither
\* Quick arrange nor Optimize starts; and every call that has started ends,
\* by resolution or rejection, with isOptimizing false and the progress 0.
C30_OptimizingUntilRunEnds ==
    /\ [](page.isOptimizing <=> InFlight # {})
    /\ [](Cardinality(InFlight) <= 1)
    /\ [][page.isOptimizing => ~(handleArrange \/ \E r \in Runs : handleOptimize(r))]_vars
    /\ [][(page.isOptimizing /\ ~page'.isOptimizing) => page'.optimizationProgress = 0]_vars
    /\ (page.isOptimizing ~> (~page.isOptimizing /\ page.optimizationProgress = 0))

\* a call that has made its last iteration, its progress shown, with shapes
\* on the page: the buttons are disabled by isOptimizing alone
C30_Witness ==
    /\ page.isOptimizing
    /\ page.optimizationProgress = LoopLength * 100
    /\ \E r \in Runs : page.calls[r].running /\ page.calls[r].currentIteration = LoopLength
    /\ Len(page.shapes) > 0

====
